---- MODULE Spec2Model ----
(***************************************************************************)
(* Model of sysadmin/apache_request_access_grant.py.                       *)
(*                                                                         *)
(* Text is modelled as follows.  A line is a sequence of symbols; a symbol *)
(* is either one character ("1", ".", ":") or a fixed literal phrase that  *)
(* the regular expressions of the script match whole or not at all ("# ",  *)
(* "Allow from ").  A file is a sequence of lines, each ended by a newline.*)
(* re.search is an unanchored, leftmost search over the symbols of a line. *)
(***************************************************************************)
EXTENDS Integers, Sequences, FiniteSets, TLC

\* ---------------------------------------------------------------- bounds
MaxConfigLen == 3
MaxLogLen == 3
MaxRuns == 2

\* ------------------------------------------------------------- text layer
Digits == {"0", "1", "2", "3", "4", "5", "6", "7", "8", "9"}

beginScriptSection == "# begin auto-script section {{{"
endScriptSection == "# end auto-script section }}}"

\* Case folding used by re.I and by the [Aa][lL].. character classes.
Fold(sym) ==
    CASE sym = "# BEGIN AUTO-SCRIPT SECTION {{{" -> beginScriptSection
      [] sym = "# END AUTO-SCRIPT SECTION }}}" -> endScriptSection
      [] sym = "allow FROM " -> "Allow from "
      [] OTHER -> sym

\* re.search(beginScriptSection, line, re.I) is not None
MatchesBegin(line) ==
    \E i \in 1..Len(line) : Fold(line[i]) = beginScriptSection

\* re.search(endScriptSection, line, re.I) is not None
MatchesEnd(line) ==
    \E i \in 1..Len(line) : Fold(line[i]) = endScriptSection

RECURSIVE DigitRun(_, _)
\* Number of consecutive digit characters of line starting at position p.
DigitRun(line, p) ==
    IF p <= Len(line) /\ line[p] \in Digits
    THEN 1 + DigitRun(line, p + 1)
    ELSE 0

\* [0-9]{1,3}\. at position p: the position after the dot, or 0.  Greedy
\* matching with backtracking succeeds only when the whole digit run has
\* one to three digits and a dot follows it.
OctetDot(line, p) ==
    LET n == DigitRun(line, p)
    IN IF p > 0 /\ n >= 1 /\ n <= 3 /\ p + n <= Len(line) /\ line[p + n] = "."
       THEN p + n + 1
       ELSE 0

\* ipRegex matched at position p: the captured group, [0-9]{1,3} three
\* times with a dot and then a last, greedy, [0-9]{1,3}.
ipRegex(line, p) ==
    LET p2 == OctetDot(line, p)
        p3 == OctetDot(line, p2)
        p4 == OctetDot(line, p3)
        n4 == DigitRun(line, p4)
        k == IF n4 > 3 THEN 3 ELSE n4
    IN IF p4 > 0 /\ n4 >= 1
       THEN [ok |-> TRUE, g1 |-> SubSeq(line, p, p4 + k - 1)]
       ELSE [ok |-> FALSE, g1 |-> <<>>]

\* re.search('[Aa][lL][lL][oO][wW] [fF][rR][oO][mM] ' + ipRegex, line):
\* the leftmost position where the keyword is followed by an address.
AllowSearch(line) ==
    LET hits == {i \in 1..Len(line) :
                    Fold(line[i]) = "Allow from " /\ ipRegex(line, i + 1).ok}
    IN IF hits = {}
       THEN [ok |-> FALSE, g1 |-> <<>>]
       ELSE ipRegex(line, (CHOOSE i \in hits : \A j \in hits : i <= j) + 1)

\* x in list
InList(x, list) == \E i \in 1..Len(list) : list[i] = x

\* ------------------------------------------------------------ input pools
Addr1 == <<"1", ".", "2", ".", "3", ".", "4">>
Addr2 == <<"9", ".", "9", ".", "9", ".", "9">>
Addr6 == <<":", ":", "1">>

Agent1 == <<"TestAgent/1.0">>
Agent2 == <<"OtherAgent/2.0">>

\* Lines a configuration file is built from.
ConfigLinePool ==
    { <<beginScriptSection>>,
      <<endScriptSection>>,
      <<"allow FROM ">> \o Addr1,
      <<"# ", "Allow from ">> \o Addr2 }

RECURSIVE SeqsUpTo(_, _)
\* All sequences over S of length at most n.
SeqsUpTo(S, n) ==
    IF n = 0
    THEN {<<>>}
    ELSE LET shorter == SeqsUpTo(S, n - 1)
         IN shorter \cup {Append(q, x) : q \in shorter, x \in S}

Missing == [exists |-> FALSE, content |-> <<>>]

File(content) == [exists |-> TRUE, content |-> content]

ConfigFiles == {File(c) : c \in SeqsUpTo(ConfigLinePool, MaxConfigLen)} \cup {Missing}

\* A line of the access log: fmt = "ok" when accessLogRegex matches it, with
\* group 1 (\S+, the address) and group 13 (the user agent).
LogLine(ip, ua) == [fmt |-> "ok", ip |-> ip, ua |-> ua]

EmptyLine == [fmt |-> "bad", ip |-> <<>>, ua |-> <<>>]

LogLinePool ==
    { LogLine(Addr1, Agent1), LogLine(Addr6, Agent1), LogLine(Addr6, Agent2) }

LogOutputs == SeqsUpTo(LogLinePool, MaxLogLen)

\* The output of the log command before any invocation has read it.
NotRead == [read |-> FALSE, out |-> <<>>]

Answers == {"y", "Y", "", "yes", "n", " y"}

\* ------------------------------------------------------------------ state
VARIABLES
    pc,             \* position of the script
    run,            \* number of the current invocation of the script
    configFile,     \* /etc/apache2/sites-available/default
    backupFile,     \* backup/<epoch> of the current invocation
    logOutput,      \* what tail | grep prints, the same at every invocation
    safety,
    insideScriptSection,
    lines,
    authorizedIps,
    configLines,
    requests,
    requestEntries,
    requestingIps,
    cont,
    exitStatus,     \* -1 while running
    exitAt,         \* the exit the invocation took
    prompts,        \* calls of raw_input in this invocation
    writes,         \* writes of the config file in this invocation
    restarts,       \* invocations of 'service apache2 restart'
    startFile,      \* configFile when this invocation started
    prevGranted     \* addresses the previous invocation wrote, if it wrote

vars == <<pc, run, configFile, backupFile, logOutput, safety,
          insideScriptSection, lines, authorizedIps, configLines, requests,
          requestEntries, requestingIps, cont, exitStatus, exitAt, prompts,
          writes, restarts, startFile, prevGranted>>

fileVars == <<configFile, backupFile, logOutput>>
scanVars == <<safety, insideScriptSection, lines, authorizedIps, configLines>>
logVars == <<requests, requestEntries, requestingIps>>
histVars == <<run, startFile, prevGranted>>

Init ==
    /\ pc = "verify"
    /\ run = 1
    /\ configFile \in ConfigFiles
    /\ backupFile = Missing
    /\ logOutput = NotRead
    /\ safety = 0
    /\ insideScriptSection = 0
    /\ lines = <<>>
    /\ authorizedIps = <<>>
    /\ configLines = <<>>
    /\ requests = <<>>
    /\ requestEntries = <<>>
    /\ requestingIps = <<>>
    /\ cont = ""
    /\ exitStatus = -1
    /\ exitAt = "running"
    /\ prompts = 0
    /\ writes = 0
    /\ restarts = 0
    /\ startFile = configFile
    /\ prevGranted = <<>>

\* sys.exit() without an argument: exit status 0.
SysExit(at) ==
    /\ pc' = "done"
    /\ exitStatus' = 0
    /\ exitAt' = at

\* An uncaught exception: traceback, exit status 1.
Crash(at) ==
    /\ pc' = "done"
    /\ exitStatus' = 1
    /\ exitAt' = at

\* NextStep with the restart left out after the write.
NextStepNoRestart(step) ==
    CASE step = "verify" -> "backup"
      [] step = "backup" -> "parse"
      [] step = "parse" -> "fetch"
      [] step = "fetch" -> "filter"
      [] step = "filter" -> "prompt"
      [] step = "prompt" -> "write"
      [] step = "write" -> "done"
      [] step = "restart" -> "done"

\* The order of the statements of the script when no exit is taken.
NextStep(step) ==
    CASE step = "verify" -> "backup"
      [] step = "backup" -> "parse"
      [] step = "parse" -> "fetch"
      [] step = "fetch" -> "filter"
      [] step = "filter" -> "prompt"
      [] step = "prompt" -> "write"
      [] step = "write" -> "restart"
      [] step = "restart" -> "done"

\* ---------------------------------------------------------------- actions
\* configFileExists = os.path.isfile(configFilePath) and its check.
VerifyConfig ==
    /\ pc = "verify"
    /\ IF configFile.exists
       THEN /\ pc' = NextStep(pc)
            /\ UNCHANGED <<exitStatus, exitAt>>
       ELSE SysExit("config_missing")
    /\ UNCHANGED <<fileVars, scanVars, logVars, histVars, cont, prompts,
                   writes, restarts>>

\* shutil.copy to backup/<time> and the isfile check.  The copy raises when
\* the backup directory is not writable; the copied file may be gone again
\* when isfile looks.
BackupConfig ==
    /\ pc = "backup"
    /\ \E copy \in {"raises", "kept", "gone"} :
          CASE copy = "raises" ->
                  /\ Crash("backup_copy_raised")
                  /\ UNCHANGED backupFile
            [] copy = "kept" ->
                  /\ backupFile' = File(configFile.content)
                  /\ pc' = NextStep(pc)
                  /\ UNCHANGED <<exitStatus, exitAt>>
            [] copy = "gone" ->
                  /\ SysExit("backup_failed")
                  /\ UNCHANGED backupFile
    /\ UNCHANGED <<configFile, logOutput, scanVars, logVars, histVars, cont,
                   prompts, writes, restarts>>

\* One iteration of 'for line in f' over the scan state st.
ScanLine(st, line) ==
    IF MatchesBegin(line)
    THEN [st EXCEPT !.safety = @ + 1, !.inside = 1]
    ELSE LET st1 == IF MatchesEnd(line)
                    THEN [st EXCEPT !.safety = @ + 1, !.inside = 0]
                    ELSE st
             ip == AllowSearch(line)
         IN IF st1.inside = 1
            THEN [st1 EXCEPT
                    !.lines = Append(@, line),
                    !.authorizedIps =
                        \* 'ip.groups() > 1' compares a tuple with an int,
                        \* which is always true in Python 2
                        IF ip.ok /\ ~InList(ip.g1, @)
                        THEN Append(@, ip.g1)
                        ELSE @]
            ELSE st1

RECURSIVE ScanConfig(_, _, _)
\* The loop 'for line in f' from line i on.
ScanConfig(content, i, st) ==
    IF i > Len(content)
    THEN st
    ELSE ScanConfig(content, i + 1, ScanLine(st, content[i]))

\* 'if not (safety == 2)': the scan is accepted.
ScanAccepted(n) == n = 2

\* Parse the config file: the scan loop, readlines and the safety check.
ParseConfig ==
    /\ pc = "parse"
    /\ LET st == ScanConfig(configFile.content, 1,
                            [safety |-> 0, inside |-> 0, lines |-> <<>>,
                             authorizedIps |-> <<>>])
       IN /\ safety' = st.safety
          /\ insideScriptSection' = st.inside
          /\ lines' = st.lines
          /\ authorizedIps' = st.authorizedIps
          /\ configLines' = configFile.content
          /\ IF ScanAccepted(st.safety)
             THEN /\ pc' = NextStep(pc)
                  /\ UNCHANGED <<exitStatus, exitAt>>
             ELSE SysExit("malformed_config")
    /\ UNCHANGED <<fileVars, logVars, histVars, cont, prompts, writes,
                   restarts>>

\* requests = Popen(...).stdout.read().split('\n'): the output ends with a
\* newline (or is empty), so the last element is the empty string.
FetchLog ==
    /\ pc = "fetch"
    /\ \E out \in LogOutputs :
          /\ logOutput.read => out = logOutput.out
          /\ logOutput' = [read |-> TRUE, out |-> out]
          /\ requests' = out \o <<EmptyLine>>
    /\ pc' = NextStep(pc)
    /\ UNCHANGED <<configFile, backupFile, scanVars, histVars, requestEntries,
                   requestingIps, cont, exitStatus, exitAt, prompts, writes,
                   restarts>>

\* ParseRequestLine without the 'not in requestingIps' test.
ParseRequestLineNoDedup(st, line) ==
    IF line.fmt = "ok"
    THEN [entries |-> Append(st.entries, [ip |-> line.ip, userAgent |-> line.ua]),
          ips |-> Append(st.ips, line.ip)]
    ELSE st

\* One iteration of 'for line in requests' over st = [entries, ips].
ParseRequestLine(st, line) ==
    \* 'acc.groups() > 12' is always true in Python 2
    IF line.fmt = "ok" /\ ~InList(line.ip, st.ips)
    THEN [entries |-> Append(st.entries, [ip |-> line.ip, userAgent |-> line.ua]),
          ips |-> Append(st.ips, line.ip)]
    ELSE st

RECURSIVE ParseRequests(_, _, _)
\* The loop 'for line in requests' from line i on.
ParseRequests(reqs, i, st) ==
    IF i > Len(reqs)
    THEN st
    ELSE ParseRequests(reqs, i + 1, ParseRequestLine(st, reqs[i]))

\* [x for x in list if not (key(x) in authorized)], with key the address.
NotAuthorized(ip, authorized) == ~InList(ip, authorized)

\* HasRequests with >= for >.
HasRequestsOrNone(ips) == Len(ips) >= 0

\* 'len(requestingIps) > 0'
HasRequests(ips) == Len(ips) > 0

\* Parse the log lines, drop the authorized addresses, exit when none is left.
FilterRequests ==
    /\ pc = "filter"
    /\ LET st == ParseRequests(requests, 1, [entries |-> <<>>, ips |-> <<>>])
           ips == SelectSeq(st.ips, LAMBDA x : NotAuthorized(x, authorizedIps))
           entries == SelectSeq(st.entries,
                                LAMBDA x : NotAuthorized(x.ip, authorizedIps))
       IN /\ requestingIps' = ips
          /\ requestEntries' = entries
          /\ IF HasRequests(ips)
             THEN /\ pc' = NextStep(pc)
                  /\ UNCHANGED <<exitStatus, exitAt>>
             ELSE SysExit("no_new_requests")
    /\ UNCHANGED <<fileVars, scanVars, histVars, requests, cont, prompts,
                   writes, restarts>>

\* Affirmative that also takes "yes".
AffirmativeLoose(answer) == answer \in {"y", "Y", "yes"}

\* (cont == 'y') or (cont == 'Y')
Affirmative(answer) == answer = "y" \/ answer = "Y"

\* cont = raw_input("Allow ips [y/n]? ") and its check.
PromptOperator ==
    /\ pc = "prompt"
    /\ \E answer \in Answers :
          /\ cont' = answer
          /\ prompts' = prompts + 1
          /\ IF Affirmative(answer)
             THEN /\ pc' = NextStep(pc)
                  /\ UNCHANGED <<exitStatus, exitAt>>
             ELSE SysExit("declined")
    /\ UNCHANGED <<fileVars, scanVars, logVars, histVars, writes, restarts>>

\* FindInsertIndex that stops one line too late, after the end marker.
FindInsertIndexAfterEnd(cl) ==
    LET hits == {i \in 2..Len(cl) : MatchesEnd(cl[i])}
    IN IF hits = {} THEN 0 ELSE (CHOOSE i \in hits : \A j \in hits : i <= j) + 1

\* The 'while True' search for the end marker, which starts at index 1 of the
\* list (position 2 here): the position of the first match, or 0 when the
\* index runs off the list (IndexError).
FindInsertIndex(cl) ==
    LET hits == {i \in 2..Len(cl) : MatchesEnd(cl[i])}
    IN IF hits = {} THEN 0 ELSE CHOOSE i \in hits : \A j \in hits : i <= j

\* The comment line written above an Allow line; "<ctime>" stands for
\* datetime.datetime.now().ctime().
NewLineComment(item) ==
    <<"# allowing ip '">> \o item.ip \o <<"' on ", "<ctime>", ", request via ">>
        \o item.userAgent

NewLine(item) == <<"Allow from ">> \o item.ip

RECURSIVE NewContent(_)
\* newContent: for each entry '\n' + newLineComment + newLine, as the lines
\* this text makes when it follows a newline.
NewContent(entries) ==
    IF entries = <<>>
    THEN <<>>
    ELSE <<<<>>, NewLineComment(Head(entries)), NewLine(Head(entries))>>
            \o NewContent(Tail(entries))

\* list.insert(i - 1, x) of Python, for a position i of the list.
ListInsert(list, i, x) ==
    SubSeq(list, 1, i - 1) \o <<x>> \o SubSeq(list, i, Len(list))

RECURSIVE Join(_)
\* "".join(pieces), each piece a sequence of lines.
Join(pieces) ==
    IF pieces = <<>> THEN <<>> ELSE Head(pieces) \o Join(Tail(pieces))

\* Insert the new lines before the end marker and write the file.  The file
\* is opened 'r+b' and written from offset 0; the new text is longer than
\* the old, so it replaces the whole file.
WriteConfig ==
    /\ pc = "write"
    /\ LET insertIndex == FindInsertIndex(configLines)
           pieces == [k \in 1..Len(configLines) |-> <<configLines[k]>>]
       IN IF insertIndex = 0
          THEN /\ Crash("index_error")
               /\ UNCHANGED <<configFile, configLines, writes>>
          ELSE /\ configLines' =
                     Join(ListInsert(pieces, insertIndex, NewContent(requestEntries)))
               /\ configFile' = File(configLines')
               /\ writes' = writes + 1
               /\ pc' = NextStep(pc)
               /\ UNCHANGED <<exitStatus, exitAt>>
    /\ UNCHANGED <<backupFile, logOutput, safety, insideScriptSection, lines,
                   authorizedIps, logVars, histVars, cont, prompts, restarts>>

\* subprocess.Popen('service apache2 restart'); the script ends after it.
RestartService ==
    /\ pc = "restart"
    /\ restarts' = restarts + 1
    /\ pc' = NextStep(pc)
    /\ exitStatus' = 0
    /\ exitAt' = "end_of_script"
    /\ UNCHANGED <<fileVars, scanVars, logVars, histVars, cont, prompts,
                   writes>>

\* The operator runs the script again: a new process with its module-level
\* variables initialised, on the files as the previous invocation left them.
Rerun ==
    /\ pc = "done"
    /\ run < MaxRuns
    /\ run' = run + 1
    /\ pc' = "verify"
    /\ startFile' = configFile
    /\ prevGranted' = IF writes = 1 THEN requestingIps ELSE <<>>
    /\ backupFile' = Missing
    /\ safety' = 0
    /\ insideScriptSection' = 0
    /\ lines' = <<>>
    /\ authorizedIps' = <<>>
    /\ configLines' = <<>>
    /\ requests' = <<>>
    /\ requestEntries' = <<>>
    /\ requestingIps' = <<>>
    /\ cont' = ""
    /\ exitStatus' = -1
    /\ exitAt' = "running"
    /\ prompts' = 0
    /\ writes' = 0
    /\ restarts' = 0
    /\ UNCHANGED <<configFile, logOutput>>

Next ==
    \/ VerifyConfig
    \/ BackupConfig
    \/ ParseConfig
    \/ FetchLog
    \/ FilterRequests
    \/ PromptOperator
    \/ WriteConfig
    \/ RestartService
    \/ Rerun

Spec == Init /\ [][Next]_vars

TypeOK ==
    /\ pc \in {"verify", "backup", "parse", "fetch", "filter", "prompt",
               "write", "restart", "done"}
    /\ run \in 1..MaxRuns
    /\ exitStatus \in {-1, 0, 1}
    /\ (pc = "done") = (exitStatus # -1)

\* ---------------------------------------------------- vocabulary of claims
CountBegin(content) == Cardinality({i \in 1..Len(content) : MatchesBegin(content[i])})

CountEnd(content) == Cardinality({i \in 1..Len(content) : MatchesEnd(content[i])})

\* Exactly one begin-marker and exactly one end-marker.
WellFormed(file) ==
    /\ file.exists
    /\ CountBegin(file.content) = 1
    /\ CountEnd(file.content) = 1

\* The begin-marker line lies above the end-marker line.
BeginBeforeEnd(file) ==
    \E b, e \in 1..Len(file.content) :
        /\ b < e
        /\ MatchesBegin(file.content[b])
        /\ MatchesEnd(file.content[e])

\* The config scan of this invocation is over.
Scanned == pc \in {"fetch", "filter", "prompt", "write", "restart"}
              \/ exitAt \in {"malformed_config", "no_new_requests", "declined",
                             "index_error", "end_of_script"}

\* The log lines of this invocation have been parsed and filtered.
Filtered == pc \in {"prompt", "write", "restart"}
               \/ exitAt \in {"no_new_requests", "declined", "index_error",
                              "end_of_script"}

\* sub occurs in line as a contiguous part.
Contains(line, sub) ==
    \E off \in 0..(Len(line) - Len(sub)) :
        \A k \in 1..Len(sub) : line[off + k] = sub[k]

IsComment(line) == Len(line) > 0 /\ line[1] \in {"# ", "# allowing ip '"}

\* An 'Allow from <address>' directive, keywords in any letter case.
IsAllowDirective(line) == Len(line) > 1 /\ Fold(line[1]) = "Allow from "

DirectiveAddress(line) == SubSeq(line, 2, Len(line))

NoDuplicates(list) ==
    \A i, j \in 1..Len(list) : list[i] = list[j] => i = j

Rank(step) ==
    CASE step = "verify" -> 1
      [] step = "backup" -> 2
      [] step = "parse" -> 3
      [] step = "fetch" -> 4
      [] step = "filter" -> 5
      [] step = "prompt" -> 6
      [] step = "write" -> 7
      [] step = "restart" -> 8
      [] step = "done" -> 9

\* ------------------------------------------------------------------ claims

\* C1: a config file in which the begin-marker or the end-marker occurs zero
\* times or more than once ends the scan in the malformed-config exit, before
\* the log is parsed; a file with exactly one of each passes the scan.
C1_MalformedIffRejected ==
    /\ exitAt = "malformed_config" => ~WellFormed(startFile) /\ requests = <<>>
    /\ (Scanned /\ exitAt # "malformed_config") => WellFormed(startFile)

\* C2: in a run whose config file does not hold exactly one begin-marker and
\* exactly one end-marker, the config file keeps its content.
C2_MalformedConfigUntouched ==
    ~WellFormed(startFile) => configFile = startFile

\* C3: a run that writes a well-formed config inserts one contiguous batch
\* immediately before the end-marker line and keeps every original line in
\* place; for each pending request, in pending order, the batch holds a
\* comment line with its address and user agent directly followed by
\* 'Allow from <address>', with exactly one Allow line per pending address.
C3_InsertBeforeEndMarker ==
    (writes = 1 /\ WellFormed(startFile)) =>
        LET old == startFile.content
            new == configFile.content
            n == Len(new) - Len(old)
        IN \E e \in 1..Len(old) :
              /\ MatchesEnd(old[e])
              /\ SubSeq(new, 1, e - 1) = SubSeq(old, 1, e - 1)
              /\ SubSeq(new, e + n, Len(new)) = SubSeq(old, e, Len(old))
              /\ n = 3 * Len(requestEntries)
              /\ \A k \in 1..Len(requestEntries) :
                    LET c == new[e + 3 * k - 2]
                        a == new[e + 3 * k - 1]
                    IN /\ IsComment(c)
                       /\ Contains(c, requestEntries[k].ip)
                       /\ Contains(c, requestEntries[k].userAgent)
                       /\ a = <<"Allow from ">> \o requestEntries[k].ip
                       /\ Cardinality({j \in e..(e + n - 1) : new[j] = a}) = 1
              /\ Cardinality({j \in e..(e + n - 1) : IsAllowDirective(new[j])})
                    = Len(requestEntries)

C3_Witness ==
    /\ writes = 1
    /\ WellFormed(startFile)
    /\ Len(requestEntries) = 2
    /\ Len(startFile.content) = 3

\* C4: the addresses extracted as authorized are exactly the addresses of the
\* 'Allow from <address>' directive lines strictly between the begin-marker
\* line and the end-marker line, each once; comment lines contribute nothing.
C4_AuthorizedAreRegionDirectives ==
    (Scanned /\ WellFormed(startFile) /\ BeginBeforeEnd(startFile)) =>
        LET f == startFile.content
            b == CHOOSE i \in 1..Len(f) : MatchesBegin(f[i])
            e == CHOOSE i \in 1..Len(f) : MatchesEnd(f[i])
        IN /\ NoDuplicates(authorizedIps)
           /\ {authorizedIps[i] : i \in 1..Len(authorizedIps)}
                = {DirectiveAddress(f[i]) :
                      i \in {j \in (b + 1)..(e - 1) : IsAllowDirective(f[j])}}

\* C5: the pending requests are the conforming log entries, one per address
\* (that of its first conforming line), without the authorized addresses, in
\* log order; requestingIps and requestEntries list the same addresses.
C5_PendingIsDedupedUnauthorized ==
    Filtered =>
        LET conf == {i \in 1..Len(requests) : requests[i].fmt = "ok"}
            first == {i \in conf : \A j \in conf : j < i => requests[j].ip # requests[i].ip}
            keep == {i \in first :
                        \A a \in 1..Len(authorizedIps) : authorizedIps[a] # requests[i].ip}
        IN /\ Len(requestEntries) = Cardinality(keep)
           /\ \A k \in 1..Len(requestEntries) :
                 \E i \in keep :
                    /\ Cardinality({j \in keep : j < i}) = k - 1
                    /\ requestEntries[k].ip = requests[i].ip
                    /\ requestEntries[k].userAgent = requests[i].ua
           /\ Len(requestingIps) = Len(requestEntries)
           /\ \A k \in 1..Len(requestingIps) : requestingIps[k] = requestEntries[k].ip
           /\ NoDuplicates(requestingIps)
           /\ \A k \in 1..Len(requestingIps) : ~InList(requestingIps[k], authorizedIps)

C5_Witness ==
    /\ Filtered
    /\ Len(requestingIps) = 1
    /\ Len(authorizedIps) > 0
    /\ \E i, j, k \in 1..Len(requests) :
          /\ i < j
          /\ requests[i].fmt = "ok" /\ requests[j].fmt = "ok"
          /\ requests[i].ip = requests[j].ip
          /\ requests[i].ua # requests[j].ua
          /\ requests[i].ip = requestingIps[1]
          /\ requests[k].fmt = "ok" /\ InList(requests[k].ip, authorizedIps)

\* C6: when no conforming log entry has an address outside the authorized
\* set, the run ends at the filter step: no prompt, no write of the config
\* file, no service restart.
C6_NoNewRequestsNoEffect ==
    (Scanned /\ exitAt # "malformed_config" /\ pc # "fetch"
        /\ \A i \in 1..Len(requests) :
              requests[i].fmt = "ok" => InList(requests[i].ip, authorizedIps))
    => /\ pc \in {"filter", "done"}
       /\ pc = "done" => exitAt = "no_new_requests"
       /\ prompts = 0
       /\ writes = 0
       /\ restarts = 0
       /\ configFile = startFile

C6_Witness ==
    /\ exitAt = "no_new_requests"
    /\ \E i \in 1..Len(requests) : requests[i].fmt = "ok"
    /\ prompts = 0

\* C7: after the prompt the config is written and the service restarted only
\* for the answer 'y' or 'Y'; any other answer ends the run with the config
\* file unchanged and no restart.
C7_OnlyExactYes ==
    /\ (writes > 0 \/ restarts > 0) => (prompts = 1 /\ cont \in {"y", "Y"})
    /\ (prompts = 1 /\ cont \notin {"y", "Y"}) =>
          /\ pc = "done"
          /\ configFile = startFile
          /\ writes = 0
          /\ restarts = 0

C7_Witness ==
    /\ prompts = 1
    /\ cont = "yes"
    /\ pc = "done"
    /\ configFile = startFile

\* C8: the exit status is non-zero when the config file is missing, when the
\* backup is not found and when the config region is malformed; it is zero
\* only after a write and restart or after an early no-op exit.
C8_ExitStatus ==
    pc = "done" =>
        /\ exitAt \in {"config_missing", "backup_failed", "malformed_config"}
              => exitStatus # 0
        /\ exitStatus = 0
              => exitAt \in {"end_of_script", "no_new_requests", "declined"}

\* C9: within a run the steps follow the fixed order and none is revisited;
\* the config file is written at most once, after the prompt and with a
\* backup of the original content in place; the service is restarted exactly
\* once, after the write, in the runs that write and never in the others.
C9_StepOrder ==
    /\ [](pc = "done" => restarts = writes)
    /\ [](restarts <= writes /\ writes <= 1)
    /\ [][run' = run =>
            /\ Rank(pc') > Rank(pc)
            /\ configFile' # configFile => writes' = writes + 1
            /\ writes' # writes =>
                  /\ pc = "write"
                  /\ writes = 0
                  /\ prompts = 1
                  /\ backupFile = File(startFile.content)
                  /\ configFile = startFile
            /\ restarts' # restarts =>
                  /\ pc = "restart"
                  /\ writes = 1
                  /\ restarts = 0]_vars

C9_Witness ==
    /\ pc = "done"
    /\ writes = 1
    /\ restarts = 1
    /\ backupFile = File(startFile.content)
    /\ configFile # startFile

\* C10: a second run on the config a first run wrote (well-formed, begin
\* above end), with the same log lines, extracts every address the first run
\* wrote as authorized, does not prompt and leaves the config unchanged.
C10_RerunIsNoOp ==
    (run >= 2 /\ Len(prevGranted) > 0
        /\ WellFormed(startFile) /\ BeginBeforeEnd(startFile)) =>
        /\ Scanned => \A k \in 1..Len(prevGranted) : InList(prevGranted[k], authorizedIps)
        /\ prompts = 0
        /\ configFile = startFile

====
